---- MODULE Spec2Model ----
(***************************************************************************)
(* Model of src/sinks/influxdb/mod.rs: the InfluxDB settings resolver, the *)
(* URI builder, the line-protocol encoder and the health check.            *)
(*                                                                         *)
(* A Rust String is a sequence of one-character strings.  Option<T> is a   *)
(* sequence of length at most one (None == <<>>, Some(v) == <<v>>).        *)
(* Result<T, E> is a record [ok |-> TRUE, val |-> v] or                    *)
(* [ok |-> FALSE, err |-> e].  A BTreeMap or HashMap is a function from    *)
(* its key set to its values.                                              *)
(***************************************************************************)
EXTENDS Integers, Sequences, FiniteSets, TLC

VARIABLES
    pc,             \* "call": op is about to run on args; "done": it returned
    op,             \* name of the operation
    args,           \* its arguments
    ret,            \* its return value (or the buffer it left behind)
    line_protocol,  \* the caller's output buffer of influx_line_protocol
    line_before,    \* that buffer as it was before the last call
    hc_future,      \* the future healthcheck returned: not there, pending
                    \* or ready with the Result it resolved to
    hc_response,    \* Option: what the HTTP client answered the request with
    hc_clients,     \* number of HttpClient values created
    hc_requests     \* requests handed to the HTTP client, in order

vars == <<pc, op, args, ret, line_protocol, line_before,
          hc_future, hc_response, hc_clients, hc_requests>>

callVars == <<pc, op, args, ret>>
lineVars == <<line_protocol, line_before>>
hcVars == <<hc_future, hc_response, hc_clients, hc_requests>>

(***************************************************************************)
(* Bounds of the model.                                                    *)
(***************************************************************************)
MaxStrLen == 3       \* longest argument of a lone encode_string call
MaxFieldStrLen == 2  \* longest string field value
MaxBufLen == 12      \* longest buffer a further line is appended to

(***************************************************************************)
(* Option and Result.                                                      *)
(***************************************************************************)
None == <<>>
Some(v) == <<v>>
IsSome(o) == Len(o) = 1
IsNone(o) == Len(o) = 0
Unwrap(o) == o[1]

Ok(v) == [ok |-> TRUE, val |-> v]
Err(e) == [ok |-> FALSE, err |-> e]

Range(s) == {s[i] : i \in 1..Len(s)}

(***************************************************************************)
(* Characters.  AsciiTable gives the byte of every character the model     *)
(* uses; String comparison (BTreeMap order) is byte-wise.                  *)
(***************************************************************************)
AsciiTable ==
    << <<"\n", 10>>, <<" ", 32>>, <<"\"", 34>>, <<"&", 38>>, <<",", 44>>,
       <<"-", 45>>, <<".", 46>>, <<"/", 47>>,
       <<"0", 48>>, <<"1", 49>>, <<"2", 50>>, <<"3", 51>>, <<"4", 52>>,
       <<"5", 53>>, <<"6", 54>>, <<"7", 55>>, <<"8", 56>>, <<"9", 57>>,
       <<":", 58>>, <<"=", 61>>, <<"?", 63>>, <<"\\", 92>>, <<"_", 95>>,
       <<"a", 97>>, <<"b", 98>>, <<"c", 99>>, <<"d", 100>>, <<"e", 101>>,
       <<"f", 102>>, <<"g", 103>>, <<"h", 104>>, <<"i", 105>>, <<"j", 106>>,
       <<"k", 107>>, <<"l", 108>>, <<"m", 109>>, <<"n", 110>>, <<"o", 111>>,
       <<"p", 112>>, <<"q", 113>>, <<"r", 114>>, <<"s", 115>>, <<"t", 116>>,
       <<"u", 117>>, <<"v", 118>>, <<"w", 119>>, <<"x", 120>>, <<"y", 121>>,
       <<"z", 122>> >>

CharCode(c) == (CHOOSE p \in Range(AsciiTable) : p[1] = c)[2]

\* a < b in the order of str's Ord (lexicographic by byte)
RECURSIVE StrLess(_, _)
StrLess(a, b) ==
    IF b = <<>> THEN FALSE
    ELSE IF a = <<>> THEN TRUE
    ELSE IF a[1] # b[1] THEN CharCode(a[1]) < CharCode(b[1])
    ELSE StrLess(Tail(a), Tail(b))

\* String::pop: removes the last character, a no-op on the empty string
Pop(s) == IF s = <<>> THEN s ELSE SubSeq(s, 1, Len(s) - 1)

EndsWith(s, c) == s # <<>> /\ s[Len(s)] = c

\* All strings over alphabet of length at most n
StringsUpTo(alphabet, n) == UNION {[1..k -> alphabet] : k \in 0..n}

(***************************************************************************)
(* encode_string (lines 266-273): a backslash before each of \ , space =   *)
(***************************************************************************)
\* variant: the equals sign is not escaped
EscapedChars_no_equals == {"\\", ",", " "}

EscapedChars == {"\\", ",", " ", "="}

RECURSIVE encode_string(_, _)
encode_string(key, output) ==
    IF key = <<>> THEN output
    ELSE encode_string(Tail(key),
            IF key[1] \in EscapedChars
            THEN output \o <<"\\", key[1]>>
            ELSE Append(output, key[1]))

(***************************************************************************)
(* Settings (lines 46-60) and the values the model draws them from.        *)
(***************************************************************************)
S_d == <<"d">>
S_q == <<"q">>
S_a_b == <<"a", " ", "b">>
S_x_eq == <<"x", "=">>

OptValues == {None, Some(S_q), Some(<<>>), Some(S_x_eq)}

InfluxDB1SettingsSet ==
    [database : {S_d, S_a_b},
     consistency : {None, Some(S_q)},
     retention_policy_name : OptValues,
     username : {None, Some(S_q), Some(S_a_b)},
     password : {None, Some(<<>>)}]

InfluxDB2SettingsSet ==
    [org : {S_d, S_a_b}, bucket : {S_q, S_x_eq}, token : {S_q}]

\* Box<dyn InfluxDBSettings>: the settings value and the impl it dispatches to
Profile1(settings) == [variant |-> "InfluxDB1Settings", settings |-> settings]
Profile2(settings) == [variant |-> "InfluxDB2Settings", settings |-> settings]

Profiles ==
    {Profile1(s) : s \in InfluxDB1SettingsSet}
        \cup {Profile2(s) : s \in InfluxDB2SettingsSet}

MissingConfiguration == [kind |-> "MissingConfiguration"]
BothConfiguration(v1, v2) ==
    [kind |-> "BothConfiguration", v1_settings |-> v1, v2_settings |-> v2]

(***************************************************************************)
(* influxdb_settings (lines 121-142).                                      *)
(***************************************************************************)
\* variant: the legacy settings win when both are present
influxdb_settings_v1_first(influxdb1_settings, influxdb2_settings) ==
    IF IsNone(influxdb1_settings) /\ IsNone(influxdb2_settings)
    THEN Err(MissingConfiguration)
    ELSE IF IsSome(influxdb1_settings)
    THEN Ok(Profile1(Unwrap(influxdb1_settings)))
    ELSE Ok(Profile2(Unwrap(influxdb2_settings)))

influxdb_settings(influxdb1_settings, influxdb2_settings) ==
    IF IsSome(influxdb1_settings) /\ IsSome(influxdb2_settings)
    THEN Err(BothConfiguration(Unwrap(influxdb1_settings),
                               Unwrap(influxdb2_settings)))
    ELSE IF IsNone(influxdb1_settings) /\ IsNone(influxdb2_settings)
    THEN Err(MissingConfiguration)
    ELSE IF IsSome(influxdb1_settings)
    THEN Ok(Profile1(Unwrap(influxdb1_settings)))
    ELSE Ok(Profile2(Unwrap(influxdb2_settings)))

(***************************************************************************)
(* String constants of the URI builder (lines 74-119).                     *)
(***************************************************************************)
K_consistency == <<"c", "o", "n", "s", "i", "s", "t", "e", "n", "c", "y">>
K_db == <<"d", "b">>
K_rp == <<"r", "p">>
K_p == <<"p">>
K_u == <<"u">>
K_precision == <<"p", "r", "e", "c", "i", "s", "i", "o", "n">>
V_ns == <<"n", "s">>
K_org == <<"o", "r", "g">>
K_bucket == <<"b", "u", "c", "k", "e", "t">>
P_write == <<"w", "r", "i", "t", "e">>
P_api_v2_write == <<"a", "p", "i", "/", "v", "2", "/", "w", "r", "i", "t", "e">>
P_ping == <<"p", "i", "n", "g">>
P_health == <<"h", "e", "a", "l", "t", "h">>
E_http_h == <<"h", "t", "t", "p", ":", "/", "/", "h", ":", "1">>
E_http_h_slash == <<"h", "t", "t", "p", ":", "/", "/", "h", ":", "1", "/">>
E_noscheme == <<"h", ":", "1">>
E_http_h_x == <<"h", "t", "t", "p", ":", "/", "/", "h", ":", "1", "/", "x">>
SchemeHttp == <<"h", "t", "t", "p", ":", "/", "/">>

Endpoints == {E_http_h, E_http_h_slash, E_noscheme, E_http_h_x}

(***************************************************************************)
(* url::form_urlencoded::Serializer (lines 292-298): byte_serialize keeps  *)
(* ASCII alphanumerics and * - . _, writes a space as + and any other byte *)
(* as %XX; append_pair puts & before every pair but the first.             *)
(***************************************************************************)
HexDigits == <<"0", "1", "2", "3", "4", "5", "6", "7", "8", "9",
               "A", "B", "C", "D", "E", "F">>

FormUnreserved == {c \in {p[1] : p \in Range(AsciiTable)} :
                     \/ CharCode(c) \in 48..57
                     \/ CharCode(c) \in 97..122
                     \/ c \in {"*", "-", ".", "_"}}

byte_serialize_char(c) ==
    IF c \in FormUnreserved THEN <<c>>
    ELSE IF c = " " THEN <<"+">>
    ELSE <<"%", HexDigits[(CharCode(c) \div 16) + 1],
                HexDigits[(CharCode(c) % 16) + 1]>>

RECURSIVE byte_serialize(_)
byte_serialize(s) ==
    IF s = <<>> THEN <<>>
    ELSE byte_serialize_char(s[1]) \o byte_serialize(Tail(s))

append_pair(target, name, value) ==
    (IF target = <<>> THEN <<>> ELSE Append(target, "&"))
        \o byte_serialize(name) \o <<"=">> \o byte_serialize(value)

\* the loop of lines 294-298 over pairs, a sequence of <<name, Option value>>
RECURSIVE serialize_pairs(_, _)
serialize_pairs(pairs, target) ==
    IF pairs = <<>> THEN target
    ELSE serialize_pairs(Tail(pairs),
            IF IsSome(pairs[1][2])
            THEN append_pair(target, pairs[1][1], Unwrap(pairs[1][2]))
            ELSE target)

(***************************************************************************)
(* str::parse::<http::Uri> (line 310) on the texts encode_uri builds: an   *)
(* absolute URI needs scheme "://" and a non-empty authority; a text that  *)
(* starts with "/" is a path-and-query; anything else with a path in it    *)
(* ("localhost:9999/...", lines 668-679) is rejected.  The parsed Uri      *)
(* displays as the text it was parsed from.                                *)
(***************************************************************************)
StartsWith(s, prefix) ==
    Len(s) >= Len(prefix) /\ SubSeq(s, 1, Len(prefix)) = prefix

UriParseError2 == [kind |-> "UriParseError2"]

parse_uri(url) ==
    IF \/ (StartsWith(url, SchemeHttp) /\ Len(url) > Len(SchemeHttp)
             /\ url[Len(SchemeHttp) + 1] # "/")
       \/ StartsWith(url, <<"/">>)
    THEN Ok(url)
    ELSE Err(UriParseError2)

(***************************************************************************)
(* encode_uri (lines 291-311).                                             *)
(***************************************************************************)
\* variant: a slash is put after the endpoint whatever it ends in
encode_uri_text_always_slash(endpoint, path, pairs) ==
    LET query == serialize_pairs(pairs, <<>>)
        url == endpoint \o <<"/">> \o path \o <<"?">> \o query
    IN  IF EndsWith(url, "?") THEN Pop(url) ELSE url

encode_uri_text(endpoint, path, pairs) ==
    LET query == serialize_pairs(pairs, <<>>)
        url == IF EndsWith(endpoint, "/")
               THEN endpoint \o path \o <<"?">> \o query
               ELSE endpoint \o <<"/">> \o path \o <<"?">> \o query
    IN  IF EndsWith(url, "?") THEN Pop(url) ELSE url

encode_uri(endpoint, path, pairs) ==
    parse_uri(encode_uri_text(endpoint, path, pairs))

(***************************************************************************)
(* impl InfluxDBSettings (lines 74-119).                                   *)
(***************************************************************************)
\* variant: u comes before p
write_pairs1_u_before_p(settings) ==
    << <<K_consistency, settings.consistency>>,
       <<K_db, Some(settings.database)>>,
       <<K_rp, settings.retention_policy_name>>,
       <<K_u, settings.username>>,
       <<K_p, settings.password>>,
       <<K_precision, Some(V_ns)>> >>

write_pairs1(settings) ==
    << <<K_consistency, settings.consistency>>,
       <<K_db, Some(settings.database)>>,
       <<K_rp, settings.retention_policy_name>>,
       <<K_p, settings.password>>,
       <<K_u, settings.username>>,
       <<K_precision, Some(V_ns)>> >>

write_pairs2(settings) ==
    << <<K_org, Some(settings.org)>>,
       <<K_bucket, Some(settings.bucket)>>,
       <<K_precision, Some(V_ns)>> >>

write_uri(profile, endpoint) ==
    IF profile.variant = "InfluxDB1Settings"
    THEN encode_uri(endpoint, P_write, write_pairs1(profile.settings))
    ELSE encode_uri(endpoint, P_api_v2_write, write_pairs2(profile.settings))

healthcheck_uri(profile, endpoint) ==
    IF profile.variant = "InfluxDB1Settings"
    THEN encode_uri(endpoint, P_ping, <<>>)
    ELSE encode_uri(endpoint, P_health, <<>>)

token(profile) ==
    IF profile.variant = "InfluxDB1Settings"
    THEN <<>>
    ELSE profile.settings.token

(***************************************************************************)
(* ToString of the integer types, bool and f64 (lines 207, 246-256).       *)
(* An f64 of the model is a whole number of hundredths: Display writes the *)
(* shortest decimal that reads back as the same value, so 1000 (10.0) is   *)
(* "10" and 12345 is "123.45" (lines 561-577).                             *)
(***************************************************************************)
S_true == <<"t", "r", "u", "e">>
S_false == <<"f", "a", "l", "s", "e">>
K_metric_type == <<"m", "e", "t", "r", "i", "c", "_", "t", "y", "p", "e">>
Digits == <<"0", "1", "2", "3", "4", "5", "6", "7", "8", "9">>

RECURSIVE nat_to_string(_)
nat_to_string(n) ==
    IF n < 10 THEN <<Digits[n + 1]>>
    ELSE Append(nat_to_string(n \div 10), Digits[(n % 10) + 1])

int_to_string(i) ==
    IF i < 0 THEN <<"-">> \o nat_to_string(-i) ELSE nat_to_string(i)

bool_to_string(b) == IF b THEN S_true ELSE S_false

f64_to_string(h) ==
    LET a == IF h < 0 THEN -h ELSE h
        whole == nat_to_string(a \div 100)
        tenths == (a % 100) \div 10
        hundredths == a % 10
        frac == IF a % 100 = 0 THEN <<>>
                ELSE IF hundredths = 0 THEN <<".", Digits[tenths + 1]>>
                ELSE <<".", Digits[tenths + 1], Digits[hundredths + 1]>>
    IN  (IF h < 0 THEN <<"-">> ELSE <<>>) \o whole \o frac

(***************************************************************************)
(* Field (lines 18-29).                                                    *)
(***************************************************************************)
\* a value of the enum: its variant and payload (s, n or b by variant)
FieldString(s) == [type |-> "String", s |-> s, n |-> 0, b |-> FALSE]
FieldFloat(f) == [type |-> "Float", s |-> <<>>, n |-> f, b |-> FALSE]
FieldUnsignedInt(i) == [type |-> "UnsignedInt", s |-> <<>>, n |-> i, b |-> FALSE]
FieldInt(i) == [type |-> "Int", s |-> <<>>, n |-> i, b |-> FALSE]
FieldBool(b) == [type |-> "Bool", s |-> <<>>, n |-> 0, b |-> b]

\* the empty BTreeMap / HashMap
EmptyMap == <<>>

\* variant: an entry already there is kept
Insert_keep_existing(map, key, value) ==
    [k \in (DOMAIN map) \cup {key} |->
        IF k \in DOMAIN map THEN map[k] ELSE value]

\* BTreeMap::insert
Insert(map, key, value) ==
    [k \in (DOMAIN map) \cup {key} |-> IF k = key THEN value ELSE map[k]]

\* the keys of a BTreeMap in iteration order: ascending by Ord
RECURSIVE SortedKeys(_)
SortedKeys(keys) ==
    IF keys = {} THEN <<>>
    ELSE LET least == CHOOSE k \in keys :
                         \A o \in keys \ {k} : StrLess(k, o)
         IN  <<least>> \o SortedKeys(keys \ {least})

\* every order a HashMap may iterate its keys in
IterationOrders(keys) ==
    {o \in [1..Cardinality(keys) -> keys] :
        \A i, j \in 1..Cardinality(keys) : i # j => o[i] # o[j]}

(***************************************************************************)
(* encode_tags (lines 211-229).                                            *)
(***************************************************************************)
\* variant: only an empty key is skipped
RECURSIVE encode_tags_loop_keeps_empty_value(_, _, _)
encode_tags_loop_keeps_empty_value(tags, sorted, output) ==
    IF sorted = <<>> THEN output
    ELSE LET key == sorted[1]
             value == tags[key]
         IN  encode_tags_loop_keeps_empty_value(tags, Tail(sorted),
                IF key = <<>>
                THEN output
                ELSE Append(
                        encode_string(value,
                            Append(encode_string(key, output), "=")),
                        ","))

RECURSIVE encode_tags_loop(_, _, _)
encode_tags_loop(tags, sorted, output) ==
    IF sorted = <<>> THEN output
    ELSE LET key == sorted[1]
             value == tags[key]
         IN  encode_tags_loop(tags, Tail(sorted),
                IF key = <<>> \/ value = <<>>
                THEN output
                ELSE Append(
                        encode_string(value,
                            Append(encode_string(key, output), "=")),
                        ","))

encode_tags(tags, output) ==
    Pop(encode_tags_loop(tags, SortedKeys(DOMAIN tags), output))

(***************************************************************************)
(* encode_fields (lines 231-264).  order is the order in which the HashMap *)
(* yields its keys.                                                        *)
(***************************************************************************)
QuotedChars == {"\\", "\""}

\* variant: a string value is escaped like a key
encode_field_string_like_key(s, output) == encode_string(s, output)

RECURSIVE encode_field_string(_, _)
encode_field_string(s, output) ==
    IF s = <<>> THEN output
    ELSE encode_field_string(Tail(s),
            IF s[1] \in QuotedChars
            THEN output \o <<"\\", s[1]>>
            ELSE Append(output, s[1]))

encode_field_value(value, output) ==
    CASE value.type = "String" ->
            Append(encode_field_string(value.s, Append(output, "\"")), "\"")
      [] value.type = "Float" -> output \o f64_to_string(value.n)
      [] value.type = "UnsignedInt" ->
            Append(output \o nat_to_string(value.n), "u")
      [] value.type = "Int" -> Append(output \o int_to_string(value.n), "i")
      [] value.type = "Bool" -> output \o bool_to_string(value.b)

RECURSIVE encode_fields_loop(_, _, _)
encode_fields_loop(fields, order, output) ==
    IF order = <<>> THEN output
    ELSE encode_fields_loop(fields, Tail(order),
            Append(
                encode_field_value(fields[order[1]],
                    Append(encode_string(order[1], output), "=")),
                ","))

\* variant: the last comma stays
encode_fields_no_pop(fields, order, output) ==
    encode_fields_loop(fields, order, output)

encode_fields(fields, order, output) ==
    Pop(encode_fields_loop(fields, order, output))

(***************************************************************************)
(* influx_line_protocol (lines 178-209).                                   *)
(***************************************************************************)
\* variant: no early return on an empty field map
influx_line_protocol_no_return(measurement, metric_type, tags, fields, order, timestamp, buffer) ==
    LET unwrapped_fields == IF IsSome(fields) THEN Unwrap(fields) ELSE EmptyMap
        unwrapped_tags ==
            Insert(IF IsSome(tags) THEN Unwrap(tags) ELSE EmptyMap,
                   K_metric_type, metric_type)
        l1 == Append(encode_string(measurement, buffer), ",")
        l2 == Append(encode_tags(unwrapped_tags, l1), " ")
        l3 == Append(encode_fields(unwrapped_fields, order, l2), " ")
    IN  Append(l3 \o int_to_string(timestamp), "\n")

\* variant: no ',' is pushed after the measurement
influx_line_protocol_no_comma(measurement, metric_type, tags, fields, order, timestamp, buffer) ==
    LET unwrapped_fields == IF IsSome(fields) THEN Unwrap(fields) ELSE EmptyMap
        unwrapped_tags ==
            Insert(IF IsSome(tags) THEN Unwrap(tags) ELSE EmptyMap,
                   K_metric_type, metric_type)
    IN  IF DOMAIN unwrapped_fields = {} THEN buffer
        ELSE LET l1 == encode_string(measurement, buffer)
                 l2 == Append(encode_tags(unwrapped_tags, l1), " ")
                 l3 == Append(encode_fields(unwrapped_fields, order, l2), " ")
             IN  Append(l3 \o int_to_string(timestamp), "\n")

influx_line_protocol(measurement, metric_type, tags, fields, order, timestamp, buffer) ==
    LET unwrapped_fields == IF IsSome(fields) THEN Unwrap(fields) ELSE EmptyMap
        unwrapped_tags ==
            Insert(IF IsSome(tags) THEN Unwrap(tags) ELSE EmptyMap,
                   K_metric_type, metric_type)
    IN  IF DOMAIN unwrapped_fields = {} THEN buffer
        ELSE LET l1 == Append(encode_string(measurement, buffer), ",")
                 l2 == Append(encode_tags(unwrapped_tags, l1), " ")
                 l3 == Append(encode_fields(unwrapped_fields, order, l2), " ")
             IN  Append(l3 \o int_to_string(timestamp), "\n")

(***************************************************************************)
(* The settings resolver and the URI builder are functions of their        *)
(* arguments: the initial state holds a call about to be made, with its    *)
(* arguments drawn from the sets above, and the action makes the call.     *)
(***************************************************************************)
Paths == {P_write, P_api_v2_write, P_ping, P_health}

PairValues == {<<K_org, None>>, <<K_org, Some(S_a_b)>>,
               <<K_bucket, Some(<<>>)>>, <<K_bucket, Some(S_x_eq)>>}

PairLists == UNION {[1..n -> PairValues] : n \in 0..2}

NoFuture == [state |-> "none"]
Pending == [state |-> "pending"]
Ready(result) == [state |-> "ready", result |-> result]

Idle ==
    /\ line_protocol = <<>>
    /\ line_before = <<>>
    /\ hc_future = NoFuture
    /\ hc_response = None
    /\ hc_clients = 0
    /\ hc_requests = <<>>

InitUri ==
    /\ pc = "call"
    /\ ret = <<>>
    /\ Idle
    /\ \/ /\ op = "influxdb_settings"
          /\ \E v1 \in {None} \cup {Some(s) : s \in InfluxDB1SettingsSet},
                v2 \in {None} \cup {Some(s) : s \in InfluxDB2SettingsSet} :
                args = [influxdb1_settings |-> v1, influxdb2_settings |-> v2]
       \/ /\ op \in {"write_uri", "healthcheck_uri"}
          /\ \E profile \in Profiles, endpoint \in Endpoints :
                args = [profile |-> profile, endpoint |-> endpoint]
       \/ /\ op = "token"
          /\ \E profile \in Profiles : args = [profile |-> profile]
       \/ /\ op = "encode_uri"
          /\ \E endpoint \in Endpoints, path \in Paths, pairs \in PairLists :
                args = [endpoint |-> endpoint, path |-> path, pairs |-> pairs]

Return(value) ==
    /\ pc' = "done"
    /\ ret' = value
    /\ UNCHANGED <<op, args, lineVars, hcVars>>

InfluxdbSettingsCall ==
    /\ pc = "call" /\ op = "influxdb_settings"
    /\ Return(influxdb_settings(args.influxdb1_settings,
                                args.influxdb2_settings))

WriteUriCall ==
    /\ pc = "call" /\ op = "write_uri"
    /\ Return(write_uri(args.profile, args.endpoint))

HealthcheckUriCall ==
    /\ pc = "call" /\ op = "healthcheck_uri"
    /\ Return(healthcheck_uri(args.profile, args.endpoint))

TokenCall ==
    /\ pc = "call" /\ op = "token"
    /\ Return(token(args.profile))

EncodeUriCall ==
    /\ pc = "call" /\ op = "encode_uri"
    /\ Return(encode_uri(args.endpoint, args.path, args.pairs))

NextUri ==
    \/ InfluxdbSettingsCall
    \/ WriteUriCall
    \/ HealthcheckUriCall
    \/ TokenCall
    \/ EncodeUriCall

SpecUri == InitUri /\ [][NextUri]_vars

(***************************************************************************)
(* The encoder's helpers, each applied to a buffer the caller owns.        *)
(***************************************************************************)
Chars == {"a", "\\", ",", " ", "=", "\"", "\n"}

\* empty, the buffer as line 194 leaves it, and a buffer holding a line
Buffers == {<<>>, <<"m", ",">>, <<"l", "\n">>}

TagKeys == {<<>>, <<"a">>, <<"b", "=">>, K_metric_type}
TagValues == {<<>>, <<"1">>, <<"v", ",">>}
TagMaps == UNION {[keys -> TagValues] : keys \in SUBSET TagKeys}

FieldKeys == {<<"a">>, <<"b">>, <<"k", " ">>}

ScalarFields ==
    {FieldFloat(f) : f \in {0, 1000, 12345, -150}}
        \cup {FieldUnsignedInt(i) : i \in {0, 657}}
        \cup {FieldInt(i) : i \in {-12, 657646}}
        \cup {FieldBool(b) : b \in BOOLEAN}

FieldValues ==
    {FieldString(s) : s \in StringsUpTo(Chars, MaxFieldStrLen)}
        \cup ScalarFields

SomeFieldValues ==
    {FieldString(<<"x", "\"">>), FieldFloat(1000), FieldUnsignedInt(657),
     FieldBool(TRUE)}

\* a HashMap handed to encode_fields is never empty (line 189)
FieldMaps ==
    UNION {[{k} -> FieldValues] : k \in FieldKeys}
        \cup UNION {[keys -> SomeFieldValues] :
                        keys \in {ks \in SUBSET FieldKeys : Cardinality(ks) >= 2}}

InitEncode ==
    /\ pc = "call"
    /\ ret = <<>>
    /\ Idle
    /\ \/ /\ op = "encode_string"
          /\ \E key \in StringsUpTo(Chars, MaxStrLen), output \in Buffers :
                args = [key |-> key, output |-> output]
       \/ /\ op = "encode_tags"
          /\ \E tags \in TagMaps, output \in Buffers :
                args = [tags |-> tags, output |-> output]
       \/ /\ op = "encode_fields"
          /\ \E fields \in FieldMaps, output \in Buffers :
                args = [fields |-> fields, output |-> output]

EncodeStringCall ==
    /\ pc = "call" /\ op = "encode_string"
    /\ Return(encode_string(args.key, args.output))

EncodeTagsCall ==
    /\ pc = "call" /\ op = "encode_tags"
    /\ Return(encode_tags(args.tags, args.output))

\* the HashMap yields its keys in an order of its own choosing
EncodeFieldsCall ==
    /\ pc = "call" /\ op = "encode_fields"
    /\ \E order \in IterationOrders(DOMAIN args.fields) :
          Return(encode_fields(args.fields, order, args.output))

NextEncode ==
    \/ EncodeStringCall
    \/ EncodeTagsCall
    \/ EncodeFieldsCall

SpecEncode == InitEncode /\ [][NextEncode]_vars

(***************************************************************************)
(* influx_line_protocol on the caller's buffer, which holds the lines of   *)
(* the calls before.                                                       *)
(***************************************************************************)
Measurements == {<<>>, <<"m">>, <<"a", " ", "b">>, <<"n", "\n">>}
MetricTypes == {<<>>, <<"c">>}

LineTagMaps ==
    {EmptyMap,
     [k \in {<<"a">>} |-> <<>>],
     [k \in {<<"a">>, K_metric_type} |-> IF k = <<"a">> THEN <<"1">> ELSE <<"g">>],
     [k \in {<<"z">>} |-> <<"v", ",">>]}

LineFieldMaps ==
    {EmptyMap,
     [k \in {<<"a">>} |-> FieldUnsignedInt(657)],
     [k \in {<<"a">>, <<"k", " ">>} |->
        IF k = <<"a">> THEN FieldString(<<"x", "\"">>) ELSE FieldBool(TRUE)]}

Timestamps == {-7, 42}

OptionOf(set) == {None} \cup {Some(x) : x \in set}

InitLine ==
    /\ pc = "done"
    /\ op = "init"
    /\ args = <<>>
    /\ ret = <<>>
    /\ Idle

InfluxLineProtocolCall ==
    /\ Len(line_protocol) <= MaxBufLen
    /\ \E measurement \in Measurements, metric_type \in MetricTypes,
          tags \in OptionOf(LineTagMaps), fields \in OptionOf(LineFieldMaps),
          timestamp \in Timestamps :
        \E order \in IterationOrders(
                        IF IsSome(fields) THEN DOMAIN Unwrap(fields) ELSE {}) :
            /\ pc' = "done"
            /\ op' = "influx_line_protocol"
            /\ args' = [measurement |-> measurement,
                        metric_type |-> metric_type,
                        tags |-> tags, fields |-> fields,
                        timestamp |-> timestamp]
            /\ ret' = <<>>
            /\ line_before' = line_protocol
            /\ line_protocol' =
                  influx_line_protocol(measurement, metric_type, tags, fields,
                                       order, timestamp, line_protocol)
            /\ UNCHANGED hcVars

NextLine == InfluxLineProtocolCall

SpecLine == InitLine /\ [][NextLine]_vars

(***************************************************************************)
(* healthcheck (lines 146-175): the call builds the request and hands it   *)
(* to a new HttpClient; the future it returns resolves when the client     *)
(* answers.                                                                *)
(***************************************************************************)
StatusOK == 200
StatusNoContent == 204
StatusCodes == {StatusOK, 201, StatusNoContent, 301, 401, 404, 500, 503}

\* what HttpClient::new (line 162) and the client's call (line 165) may fail with
ClientBuildError == [kind |-> "HttpClientBuildError"]
ClientCallErrors == {[kind |-> "HyperError", cause |-> c] :
                        c \in {"connect", "timeout"}}

UnexpectedStatus2(status) == [kind |-> "UnexpectedStatus2", status |-> status]

HealthSettings1 ==
    {s \in InfluxDB1SettingsSet :
        s.retention_policy_name = None /\ s.username = None /\ s.password = None}

InitHealth ==
    /\ pc = "call"
    /\ op = "healthcheck"
    /\ ret = <<>>
    /\ Idle
    /\ \E endpoint \in Endpoints, v1 \in OptionOf(HealthSettings1),
          v2 \in OptionOf(InfluxDB2SettingsSet) :
          args = [endpoint |-> endpoint, influxdb1_settings |-> v1,
                  influxdb2_settings |-> v2]

GetRequest(uri) == [method |-> "GET", uri |-> uri, body |-> <<>>]

\* variant: the client is built before the settings and the URI are looked at
HealthcheckCall_client_first ==
    /\ pc = "call" /\ op = "healthcheck"
    /\ pc' = "done"
    /\ UNCHANGED <<op, args, lineVars, hc_response>>
    /\ hc_clients' = hc_clients + 1
    /\ LET settings == influxdb_settings(args.influxdb1_settings,
                                         args.influxdb2_settings)
       IN  IF ~settings.ok
           THEN /\ ret' = settings
                /\ UNCHANGED <<hc_future, hc_requests>>
           ELSE LET uri == healthcheck_uri(settings.val, args.endpoint)
                IN  IF ~uri.ok
                    THEN /\ ret' = uri
                         /\ UNCHANGED <<hc_future, hc_requests>>
                    ELSE /\ hc_requests' =
                               Append(hc_requests, GetRequest(uri.val))
                         /\ hc_future' = Pending
                         /\ ret' = Ok("healthcheck")

HealthcheckCall ==
    /\ pc = "call" /\ op = "healthcheck"
    /\ pc' = "done"
    /\ UNCHANGED <<op, args, lineVars, hc_response>>
    /\ LET settings == influxdb_settings(args.influxdb1_settings,
                                         args.influxdb2_settings)
       IN  IF ~settings.ok
           THEN /\ ret' = settings
                /\ UNCHANGED <<hc_future, hc_clients, hc_requests>>
           ELSE LET uri == healthcheck_uri(settings.val, args.endpoint)
                IN  IF ~uri.ok
                    THEN /\ ret' = uri
                         /\ UNCHANGED <<hc_future, hc_clients, hc_requests>>
                    ELSE \/ /\ ret' = Err(ClientBuildError)
                            /\ UNCHANGED <<hc_future, hc_clients, hc_requests>>
                         \/ /\ hc_clients' = hc_clients + 1
                            /\ hc_requests' =
                                  Append(hc_requests, GetRequest(uri.val))
                            /\ hc_future' = Pending
                            /\ ret' = Ok("healthcheck")

\* variant: 204 No Content is not accepted
classify_only_ok(status) ==
    IF status = StatusOK THEN Ok(<<>>)
    ELSE Err(UnexpectedStatus2(status))

\* the and_then closure of lines 168-172
classify(status) ==
    IF status = StatusOK THEN Ok(<<>>)
    ELSE IF status = StatusNoContent THEN Ok(<<>>)
    ELSE Err(UnexpectedStatus2(status))

HealthcheckResponse ==
    /\ hc_future = Pending
    /\ \E status \in StatusCodes :
          /\ hc_response' = Some([status |-> status])
          /\ hc_future' = Ready(classify(status))
    /\ UNCHANGED <<callVars, lineVars, hc_clients, hc_requests>>

\* map_err of line 167
HealthcheckTransportError ==
    /\ hc_future = Pending
    /\ \E err \in ClientCallErrors :
          /\ hc_response' = Some([error |-> err])
          /\ hc_future' = Ready(Err(err))
    /\ UNCHANGED <<callVars, lineVars, hc_clients, hc_requests>>

NextHealth ==
    \/ HealthcheckCall
    \/ HealthcheckResponse
    \/ HealthcheckTransportError

SpecHealth == InitHealth /\ [][NextHealth]_vars

(***************************************************************************)
(* The whole module: any of its functions may be called.                   *)
(***************************************************************************)
Init == InitUri \/ InitEncode \/ InitLine \/ InitHealth

Next == NextUri \/ NextEncode \/ NextLine \/ NextHealth

Spec == Init /\ [][Next]_vars

(***************************************************************************)
(* Notions the properties below are stated with.                           *)
(***************************************************************************)
IsPrefix(p, s) == Len(p) <= Len(s) /\ SubSeq(s, 1, Len(p)) = p

\* the concatenation of the strings of a sequence, sep between neighbours
RECURSIVE JoinWith(_, _)
JoinWith(strings, sep) ==
    IF strings = <<>> THEN <<>>
    ELSE IF Len(strings) = 1 THEN strings[1]
    ELSE strings[1] \o sep \o JoinWith(Tail(strings), sep)

CalledWith(name) == pc = "done" /\ op = name

(***************************************************************************)
(* C1: influxdb_settings decides by the presence of its two arguments     *)
(* alone: both present fails with BothConfiguration carrying the two       *)
(* values, both absent fails with MissingConfiguration, exactly one        *)
(* present succeeds with the profile of the one present.                   *)
(***************************************************************************)
C1_ResolveIsTotalDecision ==
    CalledWith("influxdb_settings") =>
        LET v1 == args.influxdb1_settings
            v2 == args.influxdb2_settings
        IN  /\ (IsSome(v1) /\ IsSome(v2)) =>
                  /\ ~ret.ok
                  /\ ret.err.kind = "BothConfiguration"
                  /\ ret.err.v1_settings = Unwrap(v1)
                  /\ ret.err.v2_settings = Unwrap(v2)
            /\ (IsNone(v1) /\ IsNone(v2)) =>
                  /\ ~ret.ok
                  /\ ret.err.kind = "MissingConfiguration"
            /\ (IsSome(v1) /\ IsNone(v2)) =>
                  /\ ret.ok
                  /\ ret.val.variant = "InfluxDB1Settings"
                  /\ ret.val.settings = Unwrap(v1)
            /\ (IsNone(v1) /\ IsSome(v2)) =>
                  /\ ret.ok
                  /\ ret.val.variant = "InfluxDB2Settings"
                  /\ ret.val.settings = Unwrap(v2)

C1_BothPresentRejected ==
    /\ CalledWith("influxdb_settings")
    /\ IsSome(args.influxdb1_settings) /\ IsSome(args.influxdb2_settings)
    /\ ~ret.ok

(***************************************************************************)
(* C2: a call of influx_line_protocol whose fields are None or an empty    *)
(* map leaves the output buffer exactly as it was.                         *)
(***************************************************************************)
NoFields(fields) == IsNone(fields) \/ DOMAIN Unwrap(fields) = {}

C2_NoFieldsLeavesBuffer ==
    (CalledWith("influx_line_protocol") /\ NoFields(args.fields)) =>
        line_protocol = line_before

C2_NoFieldsOnFilledBuffer ==
    /\ CalledWith("influx_line_protocol")
    /\ IsSome(args.fields) /\ NoFields(args.fields)
    /\ IsSome(args.tags)
    /\ line_before # <<>>
    /\ line_protocol = line_before

(***************************************************************************)
(* The line protocol's text, said without the encoder.                     *)
(***************************************************************************)
\* s with a backslash before each backslash, comma, space and equals sign
Escaped(s) ==
    JoinWith([i \in 1..Len(s) |->
                IF s[i] \in {"\\", ",", " ", "="}
                THEN <<"\\", s[i]>> ELSE <<s[i]>>], <<>>)

\* s with a backslash before each backslash and double quote
QuoteEscaped(s) ==
    JoinWith([i \in 1..Len(s) |->
                IF s[i] \in {"\\", "\""}
                THEN <<"\\", s[i]>> ELSE <<s[i]>>], <<>>)

RECURSIVE Pow10(_)
Pow10(k) == IF k = 0 THEN 1 ELSE 10 * Pow10(k - 1)

\* the decimal digits of a natural number below 10^9, most significant first
Decimal(n) ==
    LET d == CHOOSE k \in 1..9 : n < Pow10(k) /\ (k = 1 \/ n >= Pow10(k - 1))
    IN  [i \in 1..d |-> Digits[((n \div Pow10(d - i)) % 10) + 1]]

SignedDecimal(i) == IF i < 0 THEN <<"-">> \o Decimal(-i) ELSE Decimal(i)

Ascending(keys) ==
    \A i, j \in 1..Len(keys) : i < j => StrLess(keys[i], keys[j])

KeptTags(tags) == {k \in DOMAIN tags : k # <<>> /\ tags[k] # <<>>}

\* the kept pairs as key=value, ascending by key, joined by commas
TagSection(tags) ==
    LET keys == CHOOSE o \in IterationOrders(KeptTags(tags)) : Ascending(o)
    IN  JoinWith([i \in 1..Len(keys) |->
                    Escaped(keys[i]) \o <<"=">> \o Escaped(tags[keys[i]])],
                 <<",">>)

FieldText(value) ==
    CASE value.type = "String" -> <<"\"">> \o QuoteEscaped(value.s) \o <<"\"">>
      [] value.type = "Float" -> f64_to_string(value.n)
      [] value.type = "UnsignedInt" -> Append(Decimal(value.n), "u")
      [] value.type = "Int" -> Append(SignedDecimal(value.n), "i")
      [] value.type = "Bool" ->
            IF value.b THEN <<"t", "r", "u", "e">>
            ELSE <<"f", "a", "l", "s", "e">>

\* the pairs as key=value in the given order of keys, joined by commas
FieldSection(fields, order) ==
    JoinWith([i \in 1..Len(order) |->
                Escaped(order[i]) \o <<"=">> \o FieldText(fields[order[i]])],
             <<",">>)

\* the caller's tags with metric_type set to the given value
TagsWithMetricType(tags, metric_type) ==
    LET given == IF IsSome(tags) THEN Unwrap(tags) ELSE EmptyMap
    IN  [k \in (DOMAIN given) \cup {K_metric_type} |->
            IF k = K_metric_type THEN metric_type ELSE given[k]]

(***************************************************************************)
(* C3: a call of influx_line_protocol with a non-empty field map appends   *)
(* exactly escaped(measurement), then a comma and the tag section of the   *)
(* caller's tags with metric_type overwritten by the given value (nothing, *)
(* not even the comma, when no tag pair is kept), a space, the field       *)
(* section, a space, the decimal timestamp and a newline.                  *)
(***************************************************************************)
C3_LineText ==
    (CalledWith("influx_line_protocol") /\ ~NoFields(args.fields)) =>
        LET tagSection ==
                TagSection(TagsWithMetricType(args.tags, args.metric_type))
            fields == Unwrap(args.fields)
        IN  \E order \in IterationOrders(DOMAIN fields) :
                line_protocol =
                    line_before
                        \o Escaped(args.measurement)
                        \o (IF tagSection = <<>> THEN <<>>
                            ELSE <<",">> \o tagSection)
                        \o <<" ">> \o FieldSection(fields, order)
                        \o <<" ">> \o SignedDecimal(args.timestamp)
                        \o <<"\n">>

\* C3 as claimed: the comma after the measurement is always there
C3_LineTextAlwaysComma ==
    (CalledWith("influx_line_protocol") /\ ~NoFields(args.fields)) =>
        LET tagSection ==
                TagSection(TagsWithMetricType(args.tags, args.metric_type))
            fields == Unwrap(args.fields)
        IN  \E order \in IterationOrders(DOMAIN fields) :
                line_protocol =
                    line_before
                        \o Escaped(args.measurement)
                        \o <<",">> \o tagSection
                        \o <<" ">> \o FieldSection(fields, order)
                        \o <<" ">> \o SignedDecimal(args.timestamp)
                        \o <<"\n">>

C3_MetricTypeOverwritten ==
    /\ CalledWith("influx_line_protocol")
    /\ ~NoFields(args.fields)
    /\ IsSome(args.tags)
    /\ K_metric_type \in DOMAIN Unwrap(args.tags)
    /\ Unwrap(args.tags)[K_metric_type] # args.metric_type
    /\ args.metric_type # <<>>
    /\ line_before # <<>>
    /\ Len(line_protocol) > Len(line_before)

(***************************************************************************)
(* C4: encode_tags writes the pairs whose key and value are both non-empty *)
(* as escaped(key)=escaped(value), ascending by key, one comma between     *)
(* neighbours and none at the end; when no pair is kept it writes nothing. *)
(***************************************************************************)
C4_TagsText ==
    CalledWith("encode_tags") =>
        IF KeptTags(args.tags) # {}
        THEN ret = args.output \o TagSection(args.tags)
        ELSE IsPrefix(ret, args.output)

C4_SkipsAndSorts ==
    /\ CalledWith("encode_tags")
    /\ Cardinality(KeptTags(args.tags)) >= 2
    /\ Cardinality(DOMAIN args.tags) > Cardinality(KeptTags(args.tags))
    /\ args.output # <<>>
    /\ ret # args.output

(***************************************************************************)
(* The parts of a URI's text.                                              *)
(***************************************************************************)
FirstIndex(s, c) == CHOOSE i \in 1..Len(s) : s[i] = c /\ \A j \in 1..(i - 1) : s[j] # c

\* what follows the first "?" of a URI, empty when there is none
QueryOf(uri) ==
    IF "?" \in Range(uri)
    THEN SubSeq(uri, FirstIndex(uri, "?") + 1, Len(uri))
    ELSE <<>>

\* what precedes the first "?" of a URI
BeforeQuery(uri) ==
    IF "?" \in Range(uri)
    THEN SubSeq(uri, 1, FirstIndex(uri, "?") - 1)
    ELSE uri

\* endpoint and path with one "/" between them
EndpointSlashPath(endpoint, path) ==
    (IF EndsWith(endpoint, "/") THEN Pop(endpoint) ELSE endpoint)
        \o <<"/">> \o path

\* name=value when the value is present, nothing otherwise
Parameter(name, value) ==
    IF IsSome(value)
    THEN << name \o <<"=">> \o byte_serialize(Unwrap(value)) >>
    ELSE <<>>

(***************************************************************************)
(* C5: the query of a write URI lists the parameters in the profile's      *)
(* order, a parameter only when its value is present: consistency, db, rp, *)
(* p, u, precision=ns for the legacy profile (db and precision=ns always), *)
(* org, bucket, precision=ns for the current one.                          *)
(***************************************************************************)
C5_WriteQueryOrder ==
    (CalledWith("write_uri") /\ ret.ok) =>
        LET settings == args.profile.settings
        IN  IF args.profile.variant = "InfluxDB1Settings"
            THEN /\ BeforeQuery(ret.val) =
                        EndpointSlashPath(args.endpoint, P_write)
                 /\ QueryOf(ret.val) =
                        JoinWith(Parameter(K_consistency, settings.consistency)
                                   \o Parameter(K_db, Some(settings.database))
                                   \o Parameter(K_rp, settings.retention_policy_name)
                                   \o Parameter(K_p, settings.password)
                                   \o Parameter(K_u, settings.username)
                                   \o Parameter(K_precision, Some(V_ns)),
                                 <<"&">>)
            ELSE /\ BeforeQuery(ret.val) =
                        EndpointSlashPath(args.endpoint, P_api_v2_write)
                 /\ QueryOf(ret.val) =
                        JoinWith(Parameter(K_org, Some(settings.org))
                                   \o Parameter(K_bucket, Some(settings.bucket))
                                   \o Parameter(K_precision, Some(V_ns)),
                                 <<"&">>)

C5_AbsentParametersOmitted ==
    /\ CalledWith("write_uri") /\ ret.ok
    /\ args.profile.variant = "InfluxDB1Settings"
    /\ IsNone(args.profile.settings.consistency)
    /\ IsSome(args.profile.settings.retention_policy_name)
    /\ IsSome(args.profile.settings.password)
    /\ IsSome(args.profile.settings.username)

(***************************************************************************)
(* C6: encode_uri's text is endpoint and path with one "/" between them    *)
(* whether or not the endpoint ends in "/", so e and e + "/" give the same *)
(* result; "?" and the query follow only when some value is present, so    *)
(* the text never ends in "?", and a health-check URI has no query.        *)
(***************************************************************************)
C6_UriText ==
    /\ CalledWith("encode_uri") =>
          LET present == \E i \in 1..Len(args.pairs) : IsSome(args.pairs[i][2])
          IN  /\ ret.ok =>
                    /\ ret.val =
                          EndpointSlashPath(args.endpoint, args.path)
                            \o (IF present
                                THEN <<"?">> \o serialize_pairs(args.pairs, <<>>)
                                ELSE <<>>)
                    /\ present <=> "?" \in Range(ret.val)
                    /\ ~EndsWith(ret.val, "?")
              /\ ~EndsWith(args.endpoint, "/") =>
                    encode_uri(Append(args.endpoint, "/"), args.path,
                               args.pairs) = ret
    /\ (CalledWith("healthcheck_uri") /\ ret.ok) =>
          ret.val =
              EndpointSlashPath(args.endpoint,
                  IF args.profile.variant = "InfluxDB1Settings"
                  THEN P_ping ELSE P_health)

C6_NoValuePresentNoQuery ==
    /\ CalledWith("encode_uri") /\ ret.ok
    /\ EndsWith(args.endpoint, "/")
    /\ args.pairs # <<>>
    /\ \A i \in 1..Len(args.pairs) : IsNone(args.pairs[i][2])

(***************************************************************************)
(* C7: the health check's outcome is decided by the client's answer alone: *)
(* status 200 or 204 is success, any other status is UnexpectedStatus with *)
(* that status, a failed request is an error, the client's.                *)
(***************************************************************************)
C7_HealthOutcome ==
    hc_future.state = "ready" =>
        /\ IsSome(hc_response)
        /\ LET answer == Unwrap(hc_response)
               outcome == hc_future.result
           IN  IF "status" \in DOMAIN answer
               THEN IF answer.status \in {200, 204}
                    THEN outcome.ok
                    ELSE /\ ~outcome.ok
                         /\ outcome.err.kind = "UnexpectedStatus2"
                         /\ outcome.err.status = answer.status
               ELSE /\ ~outcome.ok
                    /\ outcome.err = answer.error

C7_NoContentIsSuccess ==
    /\ hc_future.state = "ready"
    /\ IsSome(hc_response)
    /\ "status" \in DOMAIN Unwrap(hc_response)
    /\ Unwrap(hc_response).status = 204
    /\ hc_future.result.ok

(***************************************************************************)
(* C8: encode_fields writes every pair of the map once, comma-separated    *)
(* with no comma at the end, in the order the HashMap yields the keys:     *)
(* some order of the keys, not always the ascending one.                   *)
(***************************************************************************)
PairsInOrder(fields, order) ==
    JoinWith([i \in 1..Len(order) |->
                encode_field_value(fields[order[i]],
                                   Escaped(order[i]) \o <<"=">>)],
             <<",">>)

C8_FieldsInSomeOrder ==
    CalledWith("encode_fields") =>
        \E order \in IterationOrders(DOMAIN args.fields) :
            ret = args.output \o PairsInOrder(args.fields, order)

\* C8 as claimed: the keys are written in ascending order, so that the text
\* is the same for every encoding of the map
C8_FieldsAscending ==
    CalledWith("encode_fields") =>
        \E order \in IterationOrders(DOMAIN args.fields) :
            /\ Ascending(order)
            /\ ret = args.output \o PairsInOrder(args.fields, order)

C8_FieldsNotAscending ==
    /\ CalledWith("encode_fields")
    /\ Cardinality(DOMAIN args.fields) = 3
    /\ \E order \in IterationOrders(DOMAIN args.fields) :
          /\ ~Ascending(order)
          /\ ret = args.output \o PairsInOrder(args.fields, order)

(***************************************************************************)
(* C9: encode_string appends the characters of its argument in order, a    *)
(* backslash before each backslash, comma, space and equals sign and       *)
(* nothing else, so dropping the backslash before each escaped character   *)
(* gives the argument back.                                                *)
(***************************************************************************)
RECURSIVE Unescaped(_)
Unescaped(s) ==
    IF s = <<>> THEN <<>>
    ELSE IF s[1] = "\\" /\ Len(s) >= 2
    THEN <<s[2]>> \o Unescaped(SubSeq(s, 3, Len(s)))
    ELSE <<s[1]>> \o Unescaped(Tail(s))

C9_EncodeStringEscapes ==
    CalledWith("encode_string") =>
        LET written == SubSeq(ret, Len(args.output) + 1, Len(ret))
        IN  /\ IsPrefix(args.output, ret)
            /\ written = Escaped(args.key)
            /\ Unescaped(written) = args.key

C9_EscapedAndPlain ==
    /\ CalledWith("encode_string")
    /\ args.output # <<>>
    /\ Len(args.key) = 3
    /\ args.key[1] = "=" /\ args.key[2] = "a" /\ args.key[3] = "\\"
    /\ Len(ret) = Len(args.output) + 5

(***************************************************************************)
(* C10: encode_fields writes each value after escaped(key) and "=": a      *)
(* string between double quotes with a backslash before each backslash and *)
(* double quote only, an unsigned integer as its decimal digits and "u", a *)
(* signed integer as its decimal text and "i", a boolean as true or false. *)
(***************************************************************************)
C10_FieldValueText ==
    CalledWith("encode_fields") =>
        \E order \in IterationOrders(DOMAIN args.fields) :
            ret = args.output \o FieldSection(args.fields, order)

C10_StringKeepsComma ==
    /\ CalledWith("encode_fields")
    /\ \E k \in DOMAIN args.fields :
          /\ args.fields[k].type = "String"
          /\ args.fields[k].s = <<",", "\"">>
          /\ " " \in Range(k)

(***************************************************************************)
(* C11: a call of influx_line_protocol with a non-empty field map appends  *)
(* exactly one line: the text appended ends with a newline and holds no    *)
(* other newline.                                                          *)
(***************************************************************************)
Appended == SubSeq(line_protocol, Len(line_before) + 1, Len(line_protocol))

C11_OneLinePerRecord ==
    (CalledWith("influx_line_protocol") /\ ~NoFields(args.fields)) =>
        /\ IsPrefix(line_before, line_protocol)
        /\ EndsWith(Appended, "\n")
        /\ \A i \in 1..(Len(Appended) - 1) : Appended[i] # "\n"

(***************************************************************************)
(* C12: healthcheck resolves the settings and builds the health URI before *)
(* any network activity.  With invalid settings (both or neither present)  *)
(* or an endpoint whose health URI does not parse, the call returns the    *)
(* error, no client is created and no request is issued, then or later.    *)
(* A request is issued only when both steps succeeded, and it is a single  *)
(* GET with an empty body to the profile's health URI.                     *)
(***************************************************************************)
ExactlyOneSettings ==
    IsSome(args.influxdb1_settings) # IsSome(args.influxdb2_settings)

\* /ping for the v1 profile, /health for the v2 profile
HealthUriText ==
    EndpointSlashPath(args.endpoint,
        IF IsSome(args.influxdb1_settings) THEN P_ping ELSE P_health)

NoNetworkActivity ==
    hc_clients = 0 /\ hc_requests = <<>> /\ hc_future = NoFuture

C12_ValidationBeforeNetwork ==
    /\ pc = "call" => NoNetworkActivity
    /\ CalledWith("healthcheck") =>
          LET valid == ExactlyOneSettings /\ parse_uri(HealthUriText).ok
          IN  /\ ~ExactlyOneSettings =>
                    /\ ~ret.ok
                    /\ ret.err.kind \in {"MissingConfiguration",
                                         "BothConfiguration"}
              /\ (ExactlyOneSettings /\ ~parse_uri(HealthUriText).ok) =>
                    /\ ~ret.ok
                    /\ ret.err = UriParseError2
              /\ ~valid => NoNetworkActivity
              /\ hc_clients <= 1
              /\ hc_future # NoFuture => hc_requests # <<>>
              /\ hc_requests # <<>> =>
                    /\ valid
                    /\ ret.ok
                    /\ hc_clients = 1
                    /\ hc_requests = << [method |-> "GET",
                                         uri |-> HealthUriText,
                                         body |-> <<>>] >>

C12_BadEndpointNoClient ==
    /\ CalledWith("healthcheck")
    /\ ExactlyOneSettings
    /\ args.endpoint = E_noscheme
    /\ ~ret.ok
    /\ ret.err = UriParseError2
    /\ NoNetworkActivity

(***************************************************************************)
(* C13: influx_line_protocol only appends.  The buffer before a call is a  *)
(* prefix of the buffer after it, and what the call adds is the line the   *)
(* same call writes to an empty buffer, so the buffer is the concatenation *)
(* of the lines of the calls made so far.  The pops that end encode_tags   *)
(* and encode_fields never remove a character written before the call.     *)
(***************************************************************************)
\* the lines the call of the current state can write to an empty buffer
LinesOnEmptyBuffer ==
    {influx_line_protocol(args.measurement, args.metric_type, args.tags,
                          args.fields, order, args.timestamp, <<>>) :
        order \in IterationOrders(IF IsSome(args.fields)
                                  THEN DOMAIN Unwrap(args.fields) ELSE {})}

C13_OnlyAppends ==
    CalledWith("influx_line_protocol") =>
        /\ IsPrefix(line_before, line_protocol)
        /\ \E line \in LinesOnEmptyBuffer :
              line_protocol = line_before \o line

\* a call on a filled buffer in which encode_tags keeps no pair, so that its
\* pop takes the last character of the buffer as it is at that moment
C13_PopOnFilledBuffer ==
    /\ CalledWith("influx_line_protocol")
    /\ line_before # <<>>
    /\ args.measurement = <<>>
    /\ args.metric_type = <<>>
    /\ KeptTags(TagsWithMetricType(args.tags, args.metric_type)) = {}
    /\ ~NoFields(args.fields)
    /\ Len(line_protocol) > Len(line_before)
    /\ IsPrefix(line_before, line_protocol)

====
